---- MODULE Spec2Model ----
(***************************************************************************)
(* gulp-oss-sync: one-way synchronisation of a local file set to an OSS    *)
(* bucket.  The model follows src/index.js (publish, sync, cache) and the  *)
(* log reporter, connected as the pipeline                                 *)
(*     input -> publish -> [sync] -> cache -> reporter                     *)
(* Strings are TLA+ strings; object keys, etags and patterns are the       *)
(* literal JavaScript strings the code handles.                            *)
(***************************************************************************)
EXTENDS Integers, Sequences, FiniteSets, TLC

\* ------------------------------------------------------------------ bounds
MaxRuns == 2

\* ------------------------------------------------------- program constants
\* "save cache every 10 files" (cache transform)
SaveEvery == 10

\* ------------------------------------------------------------ value spaces
None == "none"

Contents == {"hi", "yo"}

Relatives == {"a.txt", "b.txt"}

Prefixes == {"", "a"}

AllKeys ==
  {"a.txt", "b.txt", "a/a.txt", "a/b.txt", "a/keep.txt", "keep.txt", "constructor"}

\* Names every plain object literal `{}` inherits from Object.prototype.
ObjectPrototypeKeys ==
  {"constructor", "toString", "toLocaleString", "valueOf", "hasOwnProperty",
   "isPrototypeOf", "propertyIsEnumerable", "__proto__"}

CharCode ==
  [c \in {"/", ".", "a", "b", "c", "e", "k", "n", "o", "p", "r", "s", "t", "u", "x"} |->
     CASE c = "." -> 46 [] c = "/" -> 47 [] c = "a" -> 97 [] c = "b" -> 98
       [] c = "c" -> 99 [] c = "e" -> 101 [] c = "k" -> 107 [] c = "n" -> 110
       [] c = "o" -> 111 [] c = "p" -> 112 [] c = "r" -> 114 [] c = "s" -> 115
       [] c = "t" -> 116 [] c = "u" -> 117 [] c = "x" -> 120]

CharAt(s, i) == SubSeq(s, i, i)

Min(S) == CHOOSE m \in S : \A n \in S : m <= n

\* JavaScript string order (by code unit), the order in which the store lists keys.
RECURSIVE LexLess(_, _, _)
LexLess(s, t, i) ==
  IF i > Len(s) THEN i <= Len(t)
  ELSE IF i > Len(t) THEN FALSE
  ELSE IF CharAt(s, i) = CharAt(t, i) THEN LexLess(s, t, i + 1)
  ELSE CharCode[CharAt(s, i)] < CharCode[CharAt(t, i)]

RECURSIVE SortKeys(_)
SortKeys(S) ==
  IF S = {} THEN <<>>
  ELSE LET least == CHOOSE k \in S : \A o \in S \ {k} : LexLess(k, o, 1)
       IN <<least>> \o SortKeys(S \ {least})

StartsWith(s, p) == Len(p) <= Len(s) /\ SubSeq(s, 1, Len(p)) = p

\* ---------------------------------------------------------- ContentIdentity
\* crypto md5 digests (hex) of the model's contents
md5Hash == [c \in Contents |->
  IF c = "hi" THEN "49f68a5c8493ec2c0bf489821c21fc3b"
              ELSE "6d0007e52f7afb7d5a0650b0ffb8a4d1"]

\* etag = '"' + md5Hash(file.contents) + '"'
LocalEtag(c) == "\"" \o md5Hash[c] \o "\""

\* ETag header of an object as the store reports it: quoted upper-case hex MD5
RemoteEtag(c) ==
  IF c = "hi" THEN "\"49F68A5C8493EC2C0BF489821C21FC3B\""
              ELSE "\"6D0007E52F7AFB7D5A0650B0FFB8A4D1\""

\* String.prototype.toLowerCase on the etags of the model
toLowerCase(s) ==
  CASE s = RemoteEtag("hi") -> LocalEtag("hi")
    [] s = RemoteEtag("yo") -> LocalEtag("yo")
    [] OTHER -> s

\* extension after the last "." of a path, "" when there is none
RECURSIVE ExtFrom(_, _)
ExtFrom(p, i) ==
  IF i = 0 THEN ""
  ELSE IF CharAt(p, i) = "." THEN SubSeq(p, i + 1, Len(p))
  ELSE ExtFrom(p, i - 1)

mimeLookup(p) ==
  IF ExtFrom(p, Len(p)) = "txt" THEN "text/plain" ELSE "application/octet-stream"

charsetsLookup(m) == IF m = "text/plain" THEN "UTF-8" ELSE None

getContentType(p) ==
  LET mimeType == mimeLookup(p)
      charset == charsetsLookup(mimeType)
  IN IF charset # None
       THEN mimeType \o "; charset=" \o (IF charset = "UTF-8" THEN "utf-8" ELSE charset)
       ELSE mimeType

\* path.join(prefix, relative) for segments without "." / ".." parts
pathJoin(p, r) == IF p = "" THEN r ELSE p \o "/" \o r

\* ------------------------------------------------------------ file records
NoLength == -1

NoOss ==
  [set |-> FALSE, path |-> None, state |-> None, etag |-> None, date |-> -1,
   ctype |-> None, clen |-> NoLength]

\* kind: "null" (no contents), "stream", "buffer"
FileUniverse ==
  { [relative |-> "a.txt", kind |-> "buffer", contents |-> "hi", oss |-> NoOss],
    [relative |-> "a.txt", kind |-> "buffer", contents |-> "yo", oss |-> NoOss],
    [relative |-> "b.txt", kind |-> "buffer", contents |-> "yo", oss |-> NoOss],
    [relative |-> "b.txt", kind |-> "null", contents |-> None, oss |-> NoOss],
    [relative |-> "b.txt", kind |-> "stream", contents |-> None, oss |-> NoOss],
    [relative |-> "b.txt", kind |-> "buffer", contents |-> "hi",
     oss |-> [NoOss EXCEPT !.set = TRUE, !.path = "b.txt", !.state = "delete"]],
    [relative |-> "b.txt", kind |-> "buffer", contents |-> "hi",
     oss |-> [NoOss EXCEPT !.set = TRUE, !.path = "b.txt", !.state = "cache",
                           !.etag = LocalEtag("hi")]] }

FileLists ==
  { fs \in UNION { [1..n -> FileUniverse] : n \in 0..Cardinality(Relatives) } :
      \A i, j \in DOMAIN fs : i # j => fs[i].relative # fs[j].relative }

\* the file lists a later run can see: the same files, or all removed locally
LaterFileLists(fs) == {fs, <<>>}

\* ------------------------------------------------------------- remote store
Absent == [content |-> None, mtime |-> 0]

Obj(c) == [content |-> c, mtime |-> 0]

Bucket(present) == [k \in AllKeys |-> IF k \in DOMAIN present THEN Obj(present[k]) ELSE Absent]

InitBuckets ==
  { Bucket(<<>>),
    Bucket([k \in {"a.txt", "a/a.txt"} |-> "hi"]),
    Bucket([k \in {"a.txt", "b.txt", "keep.txt"} |-> IF k = "a.txt" THEN "yo" ELSE "hi"]),
    Bucket([k \in {"a/keep.txt", "keep.txt", "a/a.txt"} |-> IF k = "a/a.txt" THEN "yo" ELSE "hi"]),
    Bucket([k \in {"constructor", "a.txt"} |-> "hi"]) }

\* ---------------------------------------------------------------- whitelist
\* A rule is an exact string, a RegExp (literal source, optional g flag) or a
\* value of another type.
StrRule(s) == [kind |-> "string", source |-> s, global |-> FALSE]
ReRule(s, g) == [kind |-> "regexp", source |-> s, global |-> g]
BadRule == [kind |-> "number", source |-> None, global |-> FALSE]

Whitelists ==
  { <<>>,
    <<StrRule("keep.txt")>>,
    <<ReRule("keep", FALSE)>>,
    <<ReRule("keep", TRUE)>>,
    <<StrRule("a/keep.txt"), BadRule>> }

\* RegExp.prototype.test for a literal pattern: with the g flag the search
\* starts at lastIndex and lastIndex is left after the match (0 on failure);
\* without it the search starts at 0 and lastIndex is left alone.
RegExpTest(rule, key, li) ==
  LET start == IF rule.global THEN li ELSE 0
      n == Len(rule.source)
      hits == { p \in start..(Len(key) - n) : SubSeq(key, p + 1, p + n) = rule.source }
  IN IF hits = {}
       THEN [match |-> FALSE, li |-> IF rule.global THEN 0 ELSE li]
       ELSE [match |-> TRUE, li |-> IF rule.global THEN Min(hits) + n ELSE li]

\* fileShouldBeDeleted(key, whitelist), from rule i on; lis holds each rule's
\* lastIndex.  res is "true", "false" or "throw".
RECURSIVE fileShouldBeDeleted(_, _, _, _)
fileShouldBeDeleted(key, whitelist, lis, i) ==
  IF i > Len(whitelist) THEN [res |-> "true", lis |-> lis]
  ELSE LET expr == whitelist[i] IN
    IF expr.kind = "regexp" THEN
      LET t == RegExpTest(expr, key, lis[i])
          lis2 == [lis EXCEPT ![i] = t.li]
      IN IF t.match THEN [res |-> "false", lis |-> lis2]
         ELSE fileShouldBeDeleted(key, whitelist, lis2, i + 1)
    ELSE IF expr.kind = "string" THEN
      IF expr.source = key THEN [res |-> "false", lis |-> lis]
      ELSE fileShouldBeDeleted(key, whitelist, lis, i + 1)
    ELSE [res |-> "throw", lis |-> lis]

\* newFiles[key] on the plain object newFiles = {}: own keys and inherited ones
newFilesLookup(own, key) == key \in own \/ key \in ObjectPrototypeKeys

\* client.list({prefix}): the keys that start with prefix, in key order
ListObjects(b, prefix) ==
  SortKeys({ k \in AllKeys : b[k].content # None /\ StartsWith(k, prefix) })

DeleteRecord(key) ==
  [relative |-> None, kind |-> "null", contents |-> None,
   oss |-> [NoOss EXCEPT !.set = TRUE, !.path = key, !.state = "delete"]]

\* the loop of _flush over lister.objects, from object i on
RECURSIVE ScanObjects(_, _, _, _, _, _)
ScanObjects(objects, own, whitelist, lis, i, acc) ==
  IF i > Len(objects) THEN [toDelete |-> acc, lis |-> lis, threw |-> FALSE]
  ELSE LET key == objects[i] IN
    IF newFilesLookup(own, key) THEN ScanObjects(objects, own, whitelist, lis, i + 1, acc)
    ELSE LET d == fileShouldBeDeleted(key, whitelist, lis, 1) IN
      IF d.res = "throw" THEN [toDelete |-> acc, lis |-> d.lis, threw |-> TRUE]
      ELSE IF d.res = "false" THEN ScanObjects(objects, own, whitelist, d.lis, i + 1, acc)
      ELSE ScanObjects(objects, own, whitelist, d.lis, i + 1, Append(acc, key))

\* ------------------------------------------------------- ReconcilePlanner
\* headObj as publish sees it: undefined (found = FALSE) when head threw
NoHead == [found |-> FALSE, etag |-> None, lastModified |-> -1]

HeadOf(b, key) ==
  IF b[key].content = None THEN NoHead
  ELSE [found |-> TRUE, etag |-> RemoteEtag(b[key].content), lastModified |-> b[key].mtime]

noUpdate_ignored(options, headObj) == FALSE

noUpdate(options, headObj) == options.createOnly /\ headObj.found

noChange_forceIgnored(options, headObj, etag) ==
  headObj.found /\ toLowerCase(headObj.etag) = toLowerCase(etag)

noChange_caseSensitive(options, headObj, etag) ==
  ~options.force /\ headObj.found /\ headObj.etag = etag

noChange(options, headObj, etag) ==
  ~options.force /\ headObj.found /\ toLowerCase(headObj.etag) = toLowerCase(etag)

DecideState_skipUnset(options, headObj, etag) ==
  IF noUpdate(options, headObj) \/ noChange(options, headObj, etag) THEN None
  ELSE IF headObj.found THEN "update" ELSE "create"

DecideState(options, headObj, etag) ==
  IF noUpdate(options, headObj) \/ noChange(options, headObj, etag) THEN "skip"
  ELSE IF headObj.found THEN "update" ELSE "create"

\* initFile(file, prefix)
initFile(file, prefix) ==
  IF ~file.oss.set
    THEN [file EXCEPT !.oss = [NoOss EXCEPT !.set = TRUE,
                                            !.path = pathJoin(prefix, file.relative)]]
    ELSE file

\* Content-Type and Content-Length headers, added when not already there
addHeaders(file) ==
  LET ct == IF file.oss.ctype = None THEN getContentType(file.relative) ELSE file.oss.ctype
      cl == IF file.oss.clen = NoLength \/ file.oss.clen = 0
              THEN Len(file.contents) ELSE file.oss.clen
  IN [file EXCEPT !.oss.ctype = ct, !.oss.clen = cl]

\* --------------------------------------------------------------- LocalCache
EmptyCache == [k \in AllKeys |-> None]

\* JSON.stringify(_cache): the own key/value pairs
JSONstringify(c) == { <<k, c[k]>> : k \in { x \in AllKeys : c[x] # None } }

\* JSON.parse of a cache file's text
JSONparse(text) ==
  [k \in AllKeys |-> IF \E p \in text : p[1] = k
                       THEN (CHOOSE p \in text : p[1] = k)[2] ELSE None]

NoCacheFile == [exists |-> FALSE, text |-> {}]

\* new Publisher: load cache, {} when the file cannot be read or parsed
LoadCache(f) == IF f.exists THEN JSONparse(f.text) ELSE EmptyCache

\* -------------------------------------------------------------------- state
VARIABLES
  setting,        \* this.config.setting after the constructor normalised it
  withSync,       \* whether the pipeline has the sync stage
  lastIndex,      \* lastIndex of each whitelist rule (RegExp objects)
  localFiles,     \* the file records the producer yields, every run
  bucket,         \* the remote store: key -> object
  cacheFile,      \* the durable cache file
  run,            \* number of the current run
  input,          \* records not yet written to publish
  pubPc,          \* publish: "idle", "head" (head outstanding), "put"
  cur,            \* the record publish is working on
  cbCount,        \* calls of the transform callback for the current record
  broken,         \* publish stream has emitted an error (source unpiped)
  toSync,         \* records pushed by publish, waiting at sync
  newFiles,       \* own keys of sync's newFiles object
  flushPc,        \* sync _flush: "wait", "list", "delete", "returned", "error", "flushed"
  toDelete,       \* sync's toDelete array
  toCache,        \* records waiting at the cache stage
  cache,          \* this._cache
  counter,        \* the cache stream's counter
  finished,       \* the cache stream has emitted finish
  toReport,       \* records waiting at the reporter
  logged,         \* lines the reporter has logged
  trace,          \* history: decisions publish made this run
  puts,           \* history: keys of the put calls issued this run
  pushed,         \* history: keys of the records publish pushed this run
  deleteMultis,   \* history: the deleteMulti calls issued this run
  persists,       \* history: saveCache calls of this run
  errors,         \* history: errors reported through callbacks or events
  bucketAtStart,  \* history: the remote store when the run started
  cacheAtStart,   \* history: this._cache as the constructor loaded it
  confirmed,      \* history: <<key, etag>> the store reported (head) or stored (put)
  emitted,        \* history: keys of the delete records _flush pushed this run
  prev            \* history: summary of the previous run

vars ==
  <<setting, withSync, lastIndex, localFiles, bucket, cacheFile, run, input, pubPc,
    cur, cbCount, broken, toSync, newFiles, flushPc, toDelete, toCache, cache,
    counter, finished, toReport, logged, trace, puts, pushed, deleteMultis, persists,
    errors, bucketAtStart, cacheAtStart, confirmed, emitted, prev>>

configVars == <<setting, withSync, localFiles>>

publishVars == <<input, pubPc, cur, cbCount, broken, trace, puts, pushed>>

syncVars == <<newFiles, flushPc, toDelete, deleteMultis, lastIndex, emitted>>

cacheVars == <<cache, counter, finished, cacheFile, persists>>

NoFile == [relative |-> None, kind |-> "null", contents |-> None, oss |-> NoOss]

NoPrev == [ran |-> FALSE, pubOk |-> FALSE, puts |-> 0, sameFiles |-> FALSE]

Settings ==
  [prefix : Prefixes, createOnly : BOOLEAN, force : BOOLEAN, simulate : BOOLEAN,
   whitelistedFiles : Whitelists]

Init ==
  /\ setting \in Settings
  /\ withSync \in BOOLEAN
  /\ (~withSync => setting.whitelistedFiles = <<>>)
  /\ lastIndex = [i \in DOMAIN setting.whitelistedFiles |-> 0]
  /\ localFiles \in FileLists
  /\ bucket \in InitBuckets
  /\ cacheFile = NoCacheFile
  /\ run = 1
  /\ input = localFiles
  /\ pubPc = "idle"
  /\ cur = NoFile
  /\ cbCount = 0
  /\ broken = FALSE
  /\ toSync = <<>>
  /\ newFiles = {}
  /\ flushPc = "wait"
  /\ toDelete = <<>>
  /\ toCache = <<>>
  /\ cache = LoadCache(cacheFile)
  /\ counter = 0
  /\ finished = FALSE
  /\ toReport = <<>>
  /\ logged = <<>>
  /\ trace = <<>>
  /\ puts = <<>>
  /\ pushed = <<>>
  /\ deleteMultis = <<>>
  /\ persists = <<>>
  /\ errors = <<>>
  /\ bucketAtStart = bucket
  /\ cacheAtStart = cache
  /\ confirmed = {}
  /\ emitted = <<>>
  /\ prev = NoPrev

\* ------------------------------------------------------------ SyncPipeline
\* push of a record publish hands to its callback without an error: to sync
\* when the pipeline has it, else to the cache stage
PushFromPublish(file) ==
  IF withSync
    THEN toSync' = Append(toSync, file) /\ UNCHANGED toCache
    ELSE toCache' = Append(toCache, file) /\ UNCHANGED toSync

\* the callback hands a record to push: note its key
NotePushed(file) == pushed' = Append(pushed, file.oss.path)

\* cb(null, file): the first call of the callback forwards the record
CallbackOk(file) ==
  /\ cbCount' = cbCount + 1
  /\ IF cbCount = 0
       THEN PushFromPublish(file) /\ NotePushed(file)
       ELSE UNCHANGED <<toSync, toCache, pushed>>

\* cb(err, file): the record is not forwarded, the stream emits the error
CallbackErr(err) ==
  /\ cbCount' = cbCount + 1
  /\ errors' = Append(errors, err)
  /\ broken' = TRUE
  /\ UNCHANGED <<toSync, toCache, pushed>>

\* publish, the transform function up to the first suspension (co / head)
PublishTransform ==
  /\ pubPc = "idle"
  /\ input # <<>>
  /\ ~broken
  /\ input' = Tail(input)
  /\ LET file == Head(input) IN
     IF file.kind = "null" THEN
       \* cb()
       /\ cbCount' = 1
       /\ UNCHANGED <<pubPc, cur, broken, errors, toSync, toCache, pushed>>
     ELSE IF file.kind = "stream" THEN
       \* this.emit('error', ...); cb()
       /\ errors' = Append(errors, "Stream content is not supported")
       /\ broken' = TRUE
       /\ cbCount' = 1
       /\ UNCHANGED <<pubPc, cur, toSync, toCache, pushed>>
     ELSE
       LET f1 == initFile(file, setting.prefix)
           f2 == addHeaders(f1)
       IN IF f1.oss.state = "delete" THEN
            /\ cbCount' = 1
            /\ PushFromPublish(f1) /\ NotePushed(f1)
            /\ UNCHANGED <<pubPc, cur, broken, errors>>
          ELSE IF setting.simulate THEN
            /\ cbCount' = 1
            /\ PushFromPublish(f2) /\ NotePushed(f2)
            /\ UNCHANGED <<pubPc, cur, broken, errors>>
          ELSE
            \* co: yield client.head(file.oss.path)
            /\ pubPc' = "head"
            /\ cur' = f2
            /\ cbCount' = 0
            /\ UNCHANGED <<broken, errors, toSync, toCache, pushed>>
  /\ UNCHANGED <<configVars, syncVars, cacheVars, bucket, run, toReport, logged,
                 trace, puts, bucketAtStart, cacheAtStart, confirmed, prev>>

\* publish, from the return of head to the issue of put or the callback.
\* failed: head threw an error whose code is not NoSuchKey
PublishHeadReturn(failed) ==
  /\ pubPc = "head"
  /\ LET path == cur.oss.path
         etag == LocalEtag(cur.contents)
         headObj == IF failed THEN NoHead ELSE HeadOf(bucket, path)
         state == DecideState(setting, headObj, etag)
         skip == noUpdate(setting, headObj) \/ noChange(setting, headObj, etag)
         file == [cur EXCEPT !.oss.state = state, !.oss.etag = etag,
                             !.oss.date = IF skip THEN headObj.lastModified ELSE @]
         head == IF failed THEN "error" ELSE IF headObj.found THEN "found" ELSE "absent"
     IN
       /\ trace' = Append(trace, [path |-> path, head |-> head, state |-> state,
                                  put |-> ~skip, etag |-> etag,
                                  remote |-> headObj.etag,
                                  attached |-> file.oss.etag, date |-> file.oss.date,
                                  lastModified |-> headObj.lastModified])
       /\ confirmed' = IF headObj.found THEN confirmed \cup {<<path, headObj.etag>>}
                                        ELSE confirmed
       /\ cur' = file
       /\ IF skip THEN
            \* failed implies ~skip: headObj is undefined after a throw
            /\ CallbackOk(file)
            /\ pubPc' = "idle"
            /\ UNCHANGED <<puts, errors, broken>>
          ELSE
            /\ puts' = Append(puts, path)
            /\ pubPc' = "put"
            /\ IF failed
                 THEN CallbackErr("head failed")
                 ELSE UNCHANGED <<cbCount, errors, broken, toSync, toCache, pushed>>
  /\ UNCHANGED <<configVars, syncVars, cacheVars, bucket, run, input, toReport,
                 logged, bucketAtStart, cacheAtStart, prev>>

\* publish, the return of put
PublishPutReturn(ok) ==
  /\ pubPc = "put"
  /\ pubPc' = "idle"
  /\ IF ok THEN
       /\ bucket' = [bucket EXCEPT ![cur.oss.path] = [content |-> cur.contents, mtime |-> run]]
       /\ confirmed' = confirmed \cup {<<cur.oss.path, RemoteEtag(cur.contents)>>}
       /\ CallbackOk(cur)
       /\ UNCHANGED <<errors, broken>>
     ELSE
       /\ CallbackErr("put failed")
       /\ UNCHANGED <<bucket, confirmed>>
  /\ UNCHANGED <<configVars, syncVars, cacheVars, run, input, cur, toReport, logged,
                 trace, puts, bucketAtStart, cacheAtStart, prev>>

\* the publish stream has ended: all input written and transformed, no error
PublishEnded == input = <<>> /\ pubPc = "idle" /\ ~broken

\* sync _transform
SyncTransform ==
  /\ withSync
  /\ toSync # <<>>
  /\ LET file == Head(toSync) IN
       /\ newFiles' = newFiles \cup {file.oss.path}
       /\ toCache' = Append(toCache, file)
  /\ toSync' = Tail(toSync)
  /\ UNCHANGED <<configVars, publishVars, cacheVars, flushPc, toDelete, deleteMultis,
                 lastIndex, emitted, bucket, run, toReport, logged, errors, bucketAtStart, cacheAtStart, confirmed, prev>>

\* _flush runs once the writable side has ended and every written record has
\* been transformed
FlushReady_early == withSync /\ flushPc = "wait"

FlushReady == withSync /\ flushPc = "wait" /\ PublishEnded /\ toSync = <<>>

\* sync _flush up to the first suspension: yield client.list({ prefix })
SyncFlush ==
  /\ FlushReady
  /\ flushPc' = "list"
  /\ UNCHANGED <<configVars, publishVars, cacheVars, newFiles, toDelete, deleteMultis,
                 lastIndex, emitted, bucket, run, toSync, toCache, toReport, logged, errors,
                 bucketAtStart, cacheAtStart, confirmed, prev>>

\* the destination keys of a sequence of records
PathsOf(files) == [i \in DOMAIN files |-> files[i].oss.path]

\* client.deleteMulti(toDelete, { quiet: true })
DeleteMultiCall(keys) == [keys |-> keys, quiet |-> TRUE]

DeleteRecords_none(keys, i) == <<>>

RECURSIVE DeleteRecords(_, _)
DeleteRecords(keys, i) ==
  IF i > Len(keys) THEN <<>> ELSE <<DeleteRecord(keys[i])>> \o DeleteRecords(keys, i + 1)

\* sync _flush from the return of list to deleteMulti or the end of the generator
SyncListReturn(ok) ==
  /\ flushPc = "list"
  /\ IF ~ok THEN
       \* .catch: cb(err)
       /\ flushPc' = "error"
       /\ errors' = Append(errors, "list failed")
       /\ UNCHANGED <<toDelete, deleteMultis, lastIndex, toCache, emitted>>
     ELSE
       LET objects == ListObjects(bucket, setting.prefix)
           scan == ScanObjects(objects, newFiles, setting.whitelistedFiles, lastIndex, 1, <<>>)
       IN /\ lastIndex' = scan.lis
          /\ toDelete' = scan.toDelete
          /\ toCache' = toCache \o DeleteRecords(scan.toDelete, 1)
          /\ emitted' = emitted \o PathsOf(DeleteRecords(scan.toDelete, 1))
          /\ IF scan.threw THEN
               /\ flushPc' = "error"
               /\ errors' = Append(errors, "whitelist param can only contain regular expressions or strings")
               /\ UNCHANGED deleteMultis
             ELSE IF Len(scan.toDelete) > 0 THEN
               /\ flushPc' = "delete"
               /\ deleteMultis' = Append(deleteMultis, DeleteMultiCall(scan.toDelete))
               /\ UNCHANGED errors
             ELSE
               \* the generator returns; cb is not called
               /\ flushPc' = "returned"
               /\ UNCHANGED <<deleteMultis, errors>>
  /\ UNCHANGED <<configVars, publishVars, cacheVars, newFiles, bucket, run, toSync,
                 toReport, logged, bucketAtStart, cacheAtStart, confirmed, prev>>

\* sync _flush, the return of deleteMulti(toDelete, { quiet: true })
SyncDeleteReturn(ok) ==
  /\ flushPc = "delete"
  /\ IF ok THEN
       /\ bucket' = [k \in AllKeys |->
                       IF \E i \in DOMAIN toDelete : toDelete[i] = k THEN Absent ELSE bucket[k]]
       /\ flushPc' = "returned"
       /\ UNCHANGED errors
     ELSE
       /\ flushPc' = "error"
       /\ errors' = Append(errors, "deleteMulti failed")
       /\ UNCHANGED bucket
  /\ UNCHANGED <<configVars, publishVars, cacheVars, newFiles, toDelete, deleteMultis,
                 lastIndex, emitted, run, toSync, toCache, toReport, logged, bucketAtStart, cacheAtStart, confirmed, prev>>

\* the stage upstream of cache has ended.  sync ends only when _flush calls
\* cb without an error ("flushed"), which no path of _flush does.
CacheUpstreamEnded == IF withSync THEN flushPc = "flushed" ELSE PublishEnded

\* cache: what the transform function does to _cache for a counted record
CacheRecord_deleteIgnored(c, file) ==
  IF file.oss.etag # None THEN [c EXCEPT ![file.oss.path] = file.oss.etag] ELSE c

CacheRecord_dropsAll(c, file) ==
  IF file.oss.state = "delete" THEN EmptyCache
  ELSE IF file.oss.etag # None THEN [c EXCEPT ![file.oss.path] = file.oss.etag]
  ELSE c

CacheRecord(c, file) ==
  IF file.oss.state = "delete" THEN [c EXCEPT ![file.oss.path] = None]
  ELSE IF file.oss.etag # None THEN [c EXCEPT ![file.oss.path] = file.oss.etag]
  ELSE c

\* cache: the transform function
CacheTransform ==
  /\ toCache # <<>>
  /\ toCache' = Tail(toCache)
  /\ LET file == Head(toCache)
         path == file.oss.path
     IN
       /\ toReport' = Append(toReport, file)
       /\ IF file.oss.set /\ path # None /\ file.oss.state # "cache" THEN
            LET cache2 == CacheRecord(cache, file)
                counter2 == counter + 1
            IN /\ cache' = cache2
               /\ counter' = counter2
               /\ IF counter2 % SaveEvery # 0
                    THEN /\ cacheFile' = [exists |-> TRUE, text |-> JSONstringify(cache2)]
                         /\ persists' = Append(persists, [at |-> counter2, on |-> "record"])
                    ELSE UNCHANGED <<cacheFile, persists>>
          ELSE UNCHANGED <<cache, counter, cacheFile, persists>>
  /\ UNCHANGED <<configVars, publishVars, syncVars, finished, bucket, run, toSync,
                 logged, errors, bucketAtStart, cacheAtStart, confirmed, prev>>

\* cache: stream.on('finish', saveCache)
CacheFinish ==
  /\ CacheUpstreamEnded
  /\ toCache = <<>>
  /\ ~finished
  /\ finished' = TRUE
  /\ cacheFile' = [exists |-> TRUE, text |-> JSONstringify(cache)]
  /\ persists' = Append(persists, [at |-> counter, on |-> "finish"])
  /\ UNCHANGED <<configVars, publishVars, syncVars, cache, counter, bucket, run,
                 toSync, toCache, toReport, logged, errors, bucketAtStart, cacheAtStart, confirmed, prev>>

\* the log reporter (options.states not given)
Reporter ==
  /\ toReport # <<>>
  /\ toReport' = Tail(toReport)
  /\ LET file == Head(toReport) IN
       IF ~file.oss.set \/ file.oss.state = None
         THEN UNCHANGED logged
         ELSE logged' = Append(logged, [state |-> file.oss.state, path |-> file.oss.path])
  /\ UNCHANGED <<configVars, publishVars, syncVars, cacheVars, bucket, run, toSync,
                 toCache, errors, bucketAtStart, cacheAtStart, confirmed, prev>>

\* nothing of the current run can still happen
RunQuiescent ==
  /\ pubPc = "idle"
  /\ input = <<>> \/ broken
  /\ toSync = <<>> /\ toCache = <<>> /\ toReport = <<>>
  /\ flushPc \notin {"list", "delete"}
  /\ ~FlushReady
  /\ ~(CacheUpstreamEnded /\ ~finished)

\* the next run: a new process, new Publisher(config), the same files
NextRun ==
  /\ run < MaxRuns
  /\ RunQuiescent
  /\ run' = run + 1
  /\ localFiles' \in LaterFileLists(localFiles)
  /\ prev' = [ran |-> TRUE, pubOk |-> PublishEnded /\ errors = <<>>, puts |-> Len(puts),
              sameFiles |-> localFiles' = localFiles]
  /\ lastIndex' = [i \in DOMAIN setting.whitelistedFiles |-> 0]
  /\ input' = localFiles'
  /\ pubPc' = "idle"
  /\ cur' = NoFile
  /\ cbCount' = 0
  /\ broken' = FALSE
  /\ toSync' = <<>>
  /\ newFiles' = {}
  /\ flushPc' = "wait"
  /\ toDelete' = <<>>
  /\ toCache' = <<>>
  /\ cache' = LoadCache(cacheFile)
  /\ counter' = 0
  /\ finished' = FALSE
  /\ toReport' = <<>>
  /\ logged' = <<>>
  /\ trace' = <<>>
  /\ puts' = <<>>
  /\ pushed' = <<>>
  /\ deleteMultis' = <<>>
  /\ persists' = <<>>
  /\ errors' = <<>>
  /\ bucketAtStart' = bucket
  /\ cacheAtStart' = LoadCache(cacheFile)
  /\ emitted' = <<>>
  /\ UNCHANGED <<setting, withSync, bucket, cacheFile, confirmed>>

Next ==
  \/ PublishTransform
  \/ \E failed \in BOOLEAN : PublishHeadReturn(failed)
  \/ \E ok \in BOOLEAN : PublishPutReturn(ok)
  \/ SyncTransform
  \/ SyncFlush
  \/ \E ok \in BOOLEAN : SyncListReturn(ok)
  \/ \E ok \in BOOLEAN : SyncDeleteReturn(ok)
  \/ CacheTransform
  \/ CacheFinish
  \/ Reporter
  \/ NextRun

Spec == Init /\ [][Next]_vars

\* ------------------------------------------------------------- properties
States == {"create", "update", "skip", "delete", "cache"}

Range(q) == { q[i] : i \in DOMAIN q }

\* a key matches a whitelist rule: string equality, or the pattern occurs in it
MatchesRule(rule, key) ==
  \/ rule.kind = "string" /\ rule.source = key
  \/ rule.kind = "regexp" /\
       \E p \in 0..(Len(key) - Len(rule.source)) :
          SubSeq(key, p + 1, p + Len(rule.source)) = rule.source

MatchesWhitelist(key) ==
  \E i \in DOMAIN setting.whitelistedFiles : MatchesRule(setting.whitelistedFiles[i], key)

WellTypedWhitelist ==
  \A i \in DOMAIN setting.whitelistedFiles :
     setting.whitelistedFiles[i].kind \in {"string", "regexp"}

Present(b) == { k \in AllKeys : b[k].content # None }

FingerprintsMatch(e) == e.head = "found" /\ toLowerCase(e.remote) = toLowerCase(e.etag)

\* C1 (as stated): with force=true every file publish reconciles ends in state
\* create or update, never skip, and a put is issued for its key, whatever
\* createOnly and the remote state are.
C1_Stated ==
  setting.force =>
    \A e \in Range(trace) : e.state \in {"create", "update"} /\ e.path \in Range(puts)

\* C1 (amended): with force=true every file publish reconciles ends in state
\* create or update and a put is issued for its key, except when createOnly=true
\* and head returned metadata for the key: then the state is skip and no put is
\* issued.
C1_ForceUploads ==
  setting.force =>
    \A e \in Range(trace) :
      IF setting.createOnly /\ e.head = "found"
        THEN e.state = "skip" /\ e.path \notin Range(puts)
        ELSE e.state \in {"create", "update"} /\ e.path \in Range(puts)

C1_Witness ==
  /\ setting.force
  /\ \E e \in Range(trace) :
       FingerprintsMatch(e) /\ e.state = "update" /\ e.path \in Range(puts)

\* C2: with createOnly=true no file gets state update; whenever head returned
\* metadata for the key the state is skip and no put is issued for the key,
\* whatever the local fingerprint and force are.
C2_CreateOnlyNeverUpdates ==
  setting.createOnly =>
    \A e \in Range(trace) :
      /\ e.state # "update"
      /\ e.head = "found" => e.state = "skip" /\ e.path \notin Range(puts)

C2_Witness ==
  /\ setting.createOnly /\ setting.force
  /\ \E e \in Range(trace) :
       e.head = "found" /\ ~FingerprintsMatch(e) /\ e.state = "skip"

\* C3: with simulate=true a run issues no put and no deleteMulti, and the set
\* of remote objects stays what it was when the run started.
C3_SimulateTouchesNothing ==
  setting.simulate =>
    /\ puts = <<>>
    /\ deleteMultis = <<>>
    /\ Present(bucket) = Present(bucketAtStart)

\* C4: for a whitelist of strings and patterns, a remote key that matches a
\* rule is never in a deleteMulti batch and never gets a record with state
\* delete from the delete scan.
C4_WhitelistedNeverDeleted ==
  WellTypedWhitelist =>
    /\ \A batch \in Range(deleteMultis) : \A k \in Range(batch.keys) : ~MatchesWhitelist(k)
    /\ \A k \in Range(toDelete) : ~MatchesWhitelist(k)

\* C5: when a run reconciled every file without an error, the next run over
\* the same files with the same options, force=false and no failing head gives
\* every file state skip and issues no put.
C5_SecondRunSkips ==
  (/\ run > 1 /\ prev.pubOk /\ prev.sameFiles
   /\ ~setting.force /\ ~setting.simulate
   /\ \A e \in Range(trace) : e.head # "error")
  => /\ \A e \in Range(trace) : e.state = "skip"
     /\ puts = <<>>

C5_Witness ==
  /\ run = 2 /\ prev.pubOk /\ prev.sameFiles /\ prev.puts = 2
  /\ ~setting.force /\ ~setting.simulate
  /\ Len(trace) = 2
  /\ \A e \in Range(trace) : e.state = "skip"

\* the keys the delete scan has to delete, given the store it listed
Deletable(b) ==
  { k \in Present(b) :
      StartsWith(k, setting.prefix) /\ k \notin newFiles /\ ~MatchesWhitelist(k) }

\* C6: the batch passed to deleteMulti is exactly the set of remote keys under
\* the prefix that were not seen this run and match no whitelist rule, and once
\* the scan is through no such key is left in the store.
C6_BatchIsExactlyUnseenUnprotected ==
  WellTypedWhitelist =>
    /\ flushPc = "delete" => Range(toDelete) = Deletable(bucket)
    /\ flushPc = "returned" => Deletable(bucket) = {}

\* C7: once the delete scan has issued list, no record is left to be written
\* to publish, publish works on none, none waits at sync, and the key of every
\* record publish pushed is in the seen-keys set.
C7_ScanAfterDrain ==
  flushPc # "wait" =>
    /\ input = <<>>
    /\ pubPc = "idle"
    /\ toSync = <<>>
    /\ Range(pushed) \subseteq newFiles

C7_Witness ==
  /\ flushPc = "list"
  /\ Len(pushed) = 2
  /\ Len(puts) = 2

\* C8: when head fails with an error other than NoSuchKey, no put is issued
\* for the key and the file gets no create or update state.
C8_HeadErrorAborts ==
  \A e \in Range(trace) :
    e.head = "error" => e.path \notin Range(puts) /\ e.state \notin {"create", "update"}

Forwarded == Range(toCache) \cup Range(toReport)

C10_PersistEveryTenth ==
  /\ \A p \in Range(persists) : p.on = "record" => p.at % SaveEvery = 0
  /\ \A c \in 1..counter :
       c % SaveEvery = 0 => \E p \in Range(persists) : p.on = "record" /\ p.at = c

\* C11: in a pipeline with sync, once the delete scan is through without an
\* error and nothing of the run is left to happen, the cache stream has
\* finished and the cache file holds the in-memory mapping.
C11_FinalPersistAfterScan ==
  (withSync /\ flushPc = "returned" /\ RunQuiescent)
  => /\ finished
     /\ cacheFile = [exists |-> TRUE, text |-> JSONstringify(cache)]

\* C12: a put is issued only for a key whose head has completed, and an
\* uploaded file has state update exactly when that head returned metadata and
\* create exactly when the object was absent (not-found).
C12_UploadStateFollowsHead ==
  /\ \A k \in Range(puts) : \E e \in Range(trace) : e.path = k
  /\ \A e \in Range(trace) :
       e.path \in Range(puts) =>
         /\ e.state = "update" <=> e.head = "found"
         /\ e.state = "create" <=> e.head = "absent"

\* C13: whenever publish assigns skip, the fingerprint attached is the one the
\* store reported for the key and the date is the remote last-modified time,
\* also when the skip is due to createOnly and the contents differ.
C13_SkipCarriesRemoteFingerprint ==
  \A e \in Range(trace) :
    e.state = "skip" =>
      /\ toLowerCase(e.attached) = toLowerCase(e.remote)
      /\ e.date = e.lastModified

\* C14: every cache entry key -> fingerprint belongs to an object the store
\* confirmed under that key with that fingerprint (by head or by a successful
\* put) in this run or an earlier one.
C14_CacheEntriesWereConfirmed ==
  \A k \in AllKeys :
    cache[k] # None =>
      \E p \in confirmed : p[1] = k /\ toLowerCase(p[2]) = toLowerCase(cache[k])

\* C15: the cache step for a record with a destination key: state delete
\* removes exactly that key; state cache or no fingerprint changes nothing; any
\* other state with a fingerprint sets key -> fingerprint; every other entry
\* stays as it was.
C15_CacheRecordFrame ==
  [][ (toCache # <<>> /\ toCache' = Tail(toCache)) =>
        LET f == Head(toCache)
            k == f.oss.path
        IN IF ~f.oss.set \/ k = None THEN cache' = cache
           ELSE IF f.oss.state = "delete" THEN cache' = [cache EXCEPT ![k] = None]
           ELSE IF f.oss.state = "cache" \/ f.oss.etag = None THEN cache' = cache
           ELSE cache' = [cache EXCEPT ![k] = f.oss.etag] ]_vars

C15_Witness ==
  \E k, k2 \in AllKeys :
    /\ k # k2
    /\ cacheAtStart[k] # None /\ cache[k] = None /\ k \in Range(emitted)
    /\ cacheAtStart[k2] # None /\ cache[k2] = cacheAtStart[k2]

\* C16: when deleteMulti is issued every delete record has been pushed; a run
\* issues at most one deleteMulti, with all candidates in one batch and quiet
\* on; with no candidate none is issued.
C16_OneQuietBatchAfterRecords ==
  /\ Len(deleteMultis) <= 1
  /\ \A call \in Range(deleteMultis) :
       /\ call.quiet
       /\ call.keys # <<>>
       /\ call.keys = toDelete
       /\ emitted = call.keys
  /\ toDelete = <<>> => deleteMultis = <<>>

C16_Witness ==
  /\ flushPc = "delete"
  /\ Len(deleteMultis) = 1
  /\ Len(emitted) = 2
  /\ \A k \in Range(emitted) : \E f \in Range(toCache) : f.oss.path = k /\ f.oss.state = "delete"

\* C17: while a remote call of publish is outstanding the callback of the
\* record has not been called (no next record can start) and no fatal error
\* has been reported: after a fatal error publish starts no remote call.
C17_OneFileNoCallAfterError ==
  pubPc # "idle" => cbCount = 0 /\ ~broken

\* C18: once the delete scan has no remote call outstanding or left to make,
\* _flush has invoked its callback, after a success as after a failure.
C18_FlushSignalsCompletion ==
  (withSync /\ flushPc \notin {"wait", "list", "delete"})
  => flushPc \in {"flushed", "error"}

\* C19: the callback of a record handed to publish is never invoked twice, and
\* it has been invoked once when publish is through with the record.
C19_CallbackExactlyOnce ==
  /\ cbCount <= 1
  /\ (pubPc = "idle" /\ Len(input) < Len(localFiles)) => cbCount = 1

DeleteFailed == flushPc = "error" /\ deleteMultis # <<>>

Dropped == { k \in AllKeys : cacheAtStart[k] # None /\ cache[k] = None }

\* C20 (as stated): when deleteMulti fails the error surfaces on the sync
\* stream and no cache entry has been removed for a key whose object is still
\* in the store.
C20_Stated ==
  DeleteFailed =>
    /\ "deleteMulti failed" \in Range(errors)
    /\ \A k \in Dropped : bucket[k].content = None

\* C20 (amended): when deleteMulti fails the error surfaces on the sync stream
\* and the objects of the batch stay in the store; a cache entry is dropped only
\* for a key that got a record with state delete, whether or not its object was
\* deleted.
C20_DropOnlyForDeleteRecords ==
  /\ DeleteFailed =>
       /\ "deleteMulti failed" \in Range(errors)
       /\ \A k \in Range(toDelete) : bucket[k].content # None
  /\ \A k \in Dropped :
       \/ k \in Range(emitted)
       \/ \E f \in Range(localFiles) : f.oss.state = "delete" /\ f.oss.path = k

C20_Witness ==
  /\ DeleteFailed
  /\ \E k \in Dropped : k \in Range(toDelete) /\ bucket[k].content # None

====
